---- MODULE Spec2Model ----
(***************************************************************************)
(* newrelic-cli: the recipe executor (internal/install), the recipe        *)
(* matcher, and the CLI configuration (internal/config).                   *)
(*                                                                         *)
(* Spec       a batch of candidate recipes run through                     *)
(*            goTaskRecipeExecutor.execute, one statement group per action *)
(* SpecMatch  the recipe matcher applied to bounded manifests              *)
(* SpecConfig Config.Set / Config.Delete on a loaded Config                *)
(***************************************************************************)
EXTENDS Integers, Sequences, FiniteSets, TLC

\* longest batch of candidate recipes handed to the executor
MaxBatch == 2

\* most calls of the credential setters in one run
MaxCredSets == 2

VARIABLES
    \* ---- inputs of one CLI invocation
    batch,        \* the candidate recipes, in order
    creds,        \* credentials.Credentials: DefaultProfile, Profiles
    env,          \* the process environment read by os.Getenv
    interactive,  \* the mode of the run; execute has no parameter for it
    \* ---- the batch loop
    idx,          \* index in batch of the recipe being executed
    results,      \* per-recipe result report
    \* ---- one call of execute
    pc,           \* position in execute
    err,          \* the error execute returns ("nil" for none)
    tmpFiles,     \* names of the transient task files that exist on disk
    vars,         \* e.Taskfile.Vars
    varIdx,       \* position of setInputVars' range loop
    prompted,     \* prompts run by setInputVars, in order
    bound,        \* variables bound by setInputVars, in order
    stepIdx,      \* position of the engine in the step list
    invoked,      \* steps the engine invoked, in order
    failedStep,   \* index of the step that failed, 0 for none
    \* ---- the recipe matcher
    manifest,     \* the host manifest: processes, each with a command line
    repository,   \* the loaded recipes, in load order
    candidates,   \* what the latest call of match returned
    firstCandidates, \* what the first call of match returned
    matchCalls,   \* number of calls of match so far
    \* ---- the CLI configuration
    cfg,          \* the Config struct: LogLevel, PluginDir, SendUsageData
    cfgViper,     \* c.cfgViper: values read from the file, values Set since
    cfgFile,      \* the config file on disk: whether it exists, parses, its values
    cfgOp,        \* the latest call on the Config
    cfgRes,       \* what that call returned, "panic" when it did not return
    cfgRejected,  \* some Set on this Config has returned an error
    \* ---- package configuration: credentials and the default profile
    defaultProfileValue, \* the package variable of that name
    viperCreds,   \* the values viperCreds holds, per profile and key
    credsFile,    \* credentials.json on disk
    defaultProfileFile, \* default-profile.json on disk: content, permission
    credsEnv,     \* the process: whether it is root, whether the config
                  \* directory accepts new files
    credOp,       \* the latest call on the package
    credRes,      \* what that call returned
    credSets      \* number of setCredentialValue calls so far

execVars == <<batch, creds, env, interactive, idx, results, pc, err, tmpFiles,
              vars, varIdx, prompted, bound, stepIdx, invoked, failedStep>>

matchVars == <<manifest, repository, candidates, firstCandidates, matchCalls>>

configVars == <<cfg, cfgViper, cfgFile, cfgOp, cfgRes, cfgRejected>>

credsVars == <<defaultProfileValue, viperCreds, credsFile, defaultProfileFile,
               credsEnv, credOp, credRes, credSets>>

vars_all == <<execVars, matchVars, configVars, credsVars>>

\* the state outside the executor
notExec == <<matchVars, configVars, credsVars>>

\* the state outside the matcher
notMatch == <<execVars, configVars, credsVars>>

\* the state outside the configuration
notConfig == <<execVars, matchVars, credsVars>>

\* the state outside the credentials
notCreds == <<execVars, matchVars, configVars>>

----------------------------------------------------------------------------
(* Data *)

\* discoveryManifest: the host facts of this run
Manifest ==
    [os |-> "linux", platform |-> "ubuntu", platformFamily |-> "debian",
     platformVersion |-> "20.04", kernelArch |-> "x86_64",
     kernelVersion |-> "5.4.0"]

\* variableConfig
VarPORT == [Name |-> "PORT", Prompt |-> "", Default |-> "8080"]
VarHOST == [Name |-> "HOST", Prompt |-> "Which host?", Default |-> ""]
VarOS   == [Name |-> "OS", Prompt |-> "", Default |-> ""]
VarKEY  == [Name |-> "NR_LICENSE_KEY", Prompt |-> "License key?", Default |-> "dflt-key"]

\* recipes of the repository, in load order
RecipeCatalogue ==
    << [Name |-> "R1", InputVars |-> <<VarPORT, VarHOST>>,
        Steps |-> <<"A", "B", "C">>],
       [Name |-> "R2", InputVars |-> <<VarOS, VarKEY>>,
        Steps |-> <<"writeConfig", "restartService">>],
       [Name |-> "R3", InputVars |-> <<>>, Steps |-> <<"A">>] >>

RECURSIVE SubSeqs(_)
\* the subsequences of s (order kept)
SubSeqs(s) ==
    IF s = <<>> THEN {<<>>}
    ELSE LET rest == SubSeqs(Tail(s))
         IN  rest \cup {<<Head(s)>> \o t : t \in rest}

\* candidate lists: recipes of the catalogue in load order, no recipe twice
Batches == {b \in SubSeqs(RecipeCatalogue) : Len(b) >= 1 /\ Len(b) <= MaxBatch}

\* credentials.Profile, reduced to the field execute reads
CredentialSets ==
    { [DefaultProfile |-> "default",
       Profiles |-> [p \in {"default"} |-> [LicenseKey |-> "lic-123"]]],
      [DefaultProfile |-> "default",
       Profiles |-> [p \in {"default"} |-> [LicenseKey |-> ""]]],
      [DefaultProfile |-> "gone",
       Profiles |-> [p \in {"default"} |-> [LicenseKey |-> "lic-123"]]] }

EnvNames == {"PORT", "HOST", "OS", "NR_LICENSE_KEY"}

\* environments: a variable is unset (read as "") or set to a value of its own
Envs ==
    { [n \in EnvNames |-> IF n \in S THEN "env-" \o n ELSE ""] :
        S \in { {}, {"PORT"}, {"OS"}, {"PORT", "HOST"}, {"OS", "NR_LICENSE_KEY"} } }

SystemNames == {"OS", "Platform", "PlatformFamily", "PlatformVersion",
                "KernelArch", "KernelVersion", "NR_LICENSE_KEY"}

----------------------------------------------------------------------------
(* Helpers of execute *)

EmptyVars == [k \in {} |-> ""]

\* the mutant of Merge: a key already present keeps its value
MergeKeepExisting(a, b) ==
    [k \in DOMAIN a \cup DOMAIN b |-> IF k \in DOMAIN a THEN a[k] ELSE b[k]]

\* taskfile.Vars.Merge: every key of b is Set in a, overwriting
Merge(a, b) ==
    [k \in DOMAIN a \cup DOMAIN b |-> IF k \in DOMAIN b THEN b[k] ELSE a[k]]

\* v.Set(name, taskfile.Var{Static: value}) on a fresh taskfile.Vars
Single(name, value) == [k \in {name} |-> value]

\* the recipe being executed
Cur == batch[idx]

\* os.Getenv
Getenv(name) == IF name \in DOMAIN env THEN env[name] ELSE ""

\* c.Profiles[c.DefaultProfile].LicenseKey: a missing key reads the zero Profile
DefaultLicenseKey(c) ==
    IF c.DefaultProfile \in DOMAIN c.Profiles
    THEN c.Profiles[c.DefaultProfile].LicenseKey
    ELSE ""

\* the mutant of LicenseKeyMissing: the check is dropped
LicenseKeyNeverMissing(licenseKey) == FALSE

\* licenseKey == ""
LicenseKeyMissing(licenseKey) == licenseKey = ""

\* the Vars setSystemVars builds from the manifest
SystemVars(m) ==
    [k \in {"OS", "Platform", "PlatformFamily", "PlatformVersion",
            "KernelArch", "KernelVersion"} |->
        CASE k = "OS" -> m.os
          [] k = "Platform" -> m.platform
          [] k = "PlatformFamily" -> m.platformFamily
          [] k = "PlatformVersion" -> m.platformVersion
          [] k = "KernelArch" -> m.kernelArch
          [] k = "KernelVersion" -> m.kernelVersion]

\* a mutant of UseEnv: a missing value is taken from the environment as it is
UseEnvAlways(envConfig) == TRUE

\* the mutant of UseEnv: a declared default hides the environment
UseEnvUnlessDefaulted(envConfig) ==
    Getenv(envConfig.Name) # "" /\ envConfig.Default = ""

\* envValue != "": the environment value is used
UseEnv(envConfig) == Getenv(envConfig.Name) # ""

\* the mutant of PromptLabel: the declared prompt text is ignored
PromptLabelGenerated(envConfig) == "value for " \o envConfig.Name \o " required"

\* the label of the prompt: the declared prompt text, else a generated message
PromptLabel(envConfig) ==
    IF envConfig.Prompt # "" THEN envConfig.Prompt
    ELSE "value for " \o envConfig.Name \o " required"

\* what prompt.Run can return for a prompt with this default: the pre-filled
\* default accepted, a typed value, or an error (abort, no terminal)
PromptOutcomes(envConfig) ==
    { [ok |-> TRUE, value |-> envConfig.Default],
      [ok |-> TRUE, value |-> "typed"],
      [ok |-> FALSE, value |-> ""] }

\* the mutant of PromptFailed: the error of prompt.Run is ignored
PromptFailedIgnored(r) == FALSE

\* err != nil after prompt.Run
PromptFailed(r) == ~r.ok

----------------------------------------------------------------------------
(* The recipe matcher.  Strings are sequences of characters, so that        *)
(* "pattern is a substring of the command line" is computed.                *)

\* most processes in a manifest
MaxProcs == 2

\* longest command line, in characters
MaxCmdLen == 2

Alphabet == {"n", "a"}

\* the strings over the alphabet with lo..hi characters
Strings(lo, hi) == UNION {[1..k -> Alphabet] : k \in lo..hi}

CommandLines == Strings(1, MaxCmdLen)

\* manifests: up to MaxProcs processes, each with its command line
Manifests ==
    { [processes |-> ps] :
        ps \in UNION {[1..k -> [commandLine : CommandLines]] : k \in 0..MaxProcs} }

\* the processMatch lists recipes declare: none, one pattern, two patterns,
\* the same pattern twice, a pattern of two characters
PatternLists ==
    { <<>>, << <<"n">> >>, << <<"a">> >>, << <<"n">>, <<"a">> >>,
      << <<"n">>, <<"n">> >>, << <<"n", "a">> >> }

\* repositories: recipes R1, R2 in load order, names unique
Repositories ==
    { << [name |-> "R1", processMatch |-> p1],
         [name |-> "R2", processMatch |-> p2] >> :
        p1 \in PatternLists, p2 \in PatternLists }

\* pattern is found as a substring of commandLine (case-sensitive)
Contains(commandLine, pattern) ==
    \E i \in 0..(Len(commandLine) - Len(pattern)) :
        SubSeq(commandLine, i + 1, i + Len(pattern)) = pattern

\* index of the first process, in manifest order, whose command line
\* contains the pattern; 0 when there is none
FirstMatch(m, pattern) ==
    LET hits == {i \in 1..Len(m.processes) :
                    Contains(m.processes[i].commandLine, pattern)}
    IN  IF hits = {} THEN 0
        ELSE CHOOSE i \in hits : \A j \in hits : i <= j

\* the mutant of AddCandidate: the recipe is appended at every match
AddCandidateAgain(acc, r) == Append(acc, r)

\* the candidate list with r in it once, appended when it is new
AddCandidate(acc, r) ==
    IF \E i \in 1..Len(acc) : acc[i].name = r.name THEN acc
    ELSE Append(acc, r)

RECURSIVE MatchPatterns(_, _, _, _)
\* patterns k.. of recipe r tested against the manifest
MatchPatterns(m, r, k, acc) ==
    IF k > Len(r.processMatch) THEN acc
    ELSE MatchPatterns(m, r, k + 1,
            IF FirstMatch(m, r.processMatch[k]) # 0
            THEN AddCandidate(acc, r) ELSE acc)

RECURSIVE MatchRecipes(_, _, _, _)
\* recipes k.. of the repository, in load order
MatchRecipes(m, recipes, k, acc) ==
    IF k > Len(recipes) THEN acc
    ELSE MatchRecipes(m, recipes, k + 1, MatchPatterns(m, recipes[k], 1, acc))

\* match(manifest, recipes)
match(m, recipes) == MatchRecipes(m, recipes, 1, <<>>)

\* one call of match on the manifest and the repository
Match ==
    /\ matchCalls < 2
    /\ candidates' = match(manifest, repository)
    /\ firstCandidates' = IF matchCalls = 0 THEN candidates' ELSE firstCandidates
    /\ matchCalls' = matchCalls + 1
    /\ UNCHANGED <<notMatch, manifest, repository>>

\* the matcher before any call, with fixed inputs
MatchIdle ==
    /\ manifest = [processes |-> <<>>]
    /\ repository = <<>>
    /\ candidates = <<>>
    /\ firstCandidates = <<>>
    /\ matchCalls = 0

----------------------------------------------------------------------------
(* The CLI configuration: Config over a viper handle and the config file    *)

\* a key with no value in a viper map
Absent == "<absent>"

DefaultLogLevel == "INFO"

DefaultSendUsageData == "NOT_ASKED"

\* DefaultConfigDirectory + "/plugins"
DefaultPluginDir == "~/.newrelic/plugins"

\* the fields of Config in declaration order, by mapstructure tag; cfgViper
\* has no tag and is not exported
ConfigFields ==
    << [tag |-> "logLevel", exported |-> TRUE],
       [tag |-> "pluginDir", exported |-> TRUE],
       [tag |-> "sendUsageData", exported |-> TRUE],
       [tag |-> "", exported |-> FALSE] >>

\* defaultConfig, as init builds it
defaultConfig ==
    [logLevel |-> DefaultLogLevel, pluginDir |-> DefaultPluginDir,
     sendUsageData |-> DefaultSendUsageData]

\* the Config zero value
ZeroConfig == [logLevel |-> "", pluginDir |-> "", sendUsageData |-> ""]

\* strings.ToLower on the strings of the model
ToLower(s) ==
    CASE s = "logLevel" -> "loglevel"
      [] s = "pluginDir" -> "plugindir"
      [] s = "sendUsageData" -> "sendusagedata"
      [] s \in {"INFO", "Info"} -> "info"
      [] s = "Debug" -> "debug"
      [] s = "Trace" -> "trace"
      [] s = "Warn" -> "warn"
      [] s = "Error" -> "error"
      [] s = "NOT_ASKED" -> "not_asked"
      [] s = "DISALLOW" -> "disallow"
      [] s = "ALLOW" -> "allow"
      [] OTHER -> s

\* strings.EqualFold
EqualFold(a, b) == ToLower(a) = ToLower(b)

\* stringInStrings
stringInStrings(s, ss) == \E i \in 1..Len(ss) : EqualFold(ss[i], s)

\* validConfigKeys: the mapstructure tag of every field of Config
validConfigKeys == [i \in 1..Len(ConfigFields) |-> ConfigFields[i].tag]

\* the keys of the global scope in viper, which lower-cases keys
ViperKeys == {ToLower(ConfigFields[i].tag) : i \in 1..Len(ConfigFields)}

NoValues == [k \in ViperKeys |-> Absent]

\* viper.Set("*." + key, value): the value goes to the override map
ViperSet(v, key, value) == [v EXCEPT !.override[ToLower(key)] = value]

\* viper.Get("*." + key): a Set value hides the one read from the file
ViperGet(v, key) ==
    IF v.override[ToLower(key)] # Absent THEN v.override[ToLower(key)]
    ELSE v.config[ToLower(key)]

\* viper.AllSettings under the global scope
AllSettings(v) == [k \in ViperKeys |-> ViperGet(v, k)]

\* unmarshalAllScopes and the lookup of the global scope: mapstructure
\* fills the exported fields by tag, whatever the case of the key
unmarshalGlobal(v) ==
    [ok |-> \E k \in ViperKeys : ViperGet(v, k) # Absent,
     config |-> [f \in DOMAIN ZeroConfig |->
                    IF ViperGet(v, f) = Absent THEN "" ELSE ViperGet(v, f)]]

\* Config.setDefaults: mergo.Merge fills the empty fields from defaultConfig
setDefaults(c) ==
    [f \in DOMAIN c |-> IF c[f] = "" THEN defaultConfig[f] ELSE c[f]]

\* the Value visitAllConfigFields hands to its callback for field i
FieldValue(c, i) ==
    [Name |-> ConfigFields[i].tag,
     Value |-> c[ConfigFields[i].tag],
     Default |-> defaultConfig[ConfigFields[i].tag]]

\* the callback of Config.validate
validateField(v) ==
    CASE ToLower(v.Name) = "loglevel" ->
            IF stringInStrings(v.Value, <<"Info", "Debug", "Trace", "Warn", "Error">>)
            THEN "nil" ELSE "not a valid value"
      [] ToLower(v.Name) = "sendusagedata" ->
            IF stringInStrings(v.Value, <<"NOT_ASKED", "DISALLOW", "ALLOW">>)
            THEN "nil" ELSE "not a valid value"
      [] OTHER -> "nil"

\* the callbacks of getDefaultValue and createFile, which return no error
visitNil(v) == "nil"

\* f(&Value{...}) for the callback named f
call(f, v) == IF f = "validate" THEN validateField(v) ELSE visitNil(v)

\* Config.visitAllConfigFields: the fields in order; Interface() on a field
\* that is not exported panics; the first error of the callback ends the walk
visitAllConfigFields(f, c) ==
    LET stops == {i \in 1..Len(ConfigFields) :
                    \/ ~ConfigFields[i].exported
                    \/ call(f, FieldValue(c, i)) # "nil"}
    IN  IF stops = {} THEN "nil"
        ELSE LET i == CHOOSE n \in stops : \A j \in stops : n <= j
             IN  IF ~ConfigFields[i].exported THEN "panic"
                 ELSE call(f, FieldValue(c, i))

\* Config.validate
validate(c) == visitAllConfigFields("validate", c)

\* Config.getDefaultValue: the default of the field whose tag is exactly key
getDefaultValue(c, key) ==
    LET walk == visitAllConfigFields("nil", c)
        hit == {i \in 1..Len(ConfigFields) : ConfigFields[i].tag = key}
    IN  IF walk # "nil" THEN [res |-> walk, value |-> ""]
        ELSE IF hit = {} THEN [res |-> "failed to locate default value", value |-> ""]
        ELSE [res |-> "nil", value |-> defaultConfig[key]]

\* Config.createFile: every field of c is Set in viper, then the file is
\* written
createFile(c, v) ==
    LET walk == visitAllConfigFields("nil", c)
        all == [v EXCEPT !.override =
                   [k \in ViperKeys |->
                       IF \E f \in DOMAIN c : ToLower(f) = k
                       THEN c[CHOOSE f \in DOMAIN c : ToLower(f) = k]
                       ELSE v.override[k]]]
    IN  IF walk # "nil" THEN [res |-> walk, viper |-> v, file |-> [exists |-> FALSE, parses |-> TRUE, values |-> NoValues]]
        ELSE [res |-> "nil", viper |-> all,
              file |-> [exists |-> TRUE, parses |-> TRUE, values |-> AllSettings(all)]]

\* Config.set: the value is Set in viper first, then the global scope is
\* unmarshalled, completed with the defaults and validated, then the file
\* is created or rewritten
set(c, v, file, key, value) ==
    LET v1 == ViperSet(v, key, value)
        g == unmarshalGlobal(v1)
        checked == validate(setDefaults(g.config))
    IN  IF ~g.ok THEN [res |-> "failed to locate global scope", viper |-> v1, file |-> file]
        ELSE IF checked # "nil" THEN [res |-> checked, viper |-> v1, file |-> file]
        ELSE IF ~file.exists THEN createFile(c, v1)
        ELSE [res |-> "nil", viper |-> v1,
              file |-> [exists |-> TRUE, parses |-> TRUE, values |-> AllSettings(v1)]]

\* Config.Set
Set(c, v, file, key, value) ==
    IF ~stringInStrings(key, validConfigKeys)
    THEN [res |-> "not a valid key", viper |-> v, file |-> file]
    ELSE set(c, v, file, key, value)

\* Config.Delete
Delete(c, v, file, key) ==
    LET d == getDefaultValue(c, key)
    IN  IF d.res # "nil" THEN [res |-> d.res, viper |-> v, file |-> file]
        ELSE set(c, v, file, key, d.value)

\* keys handed to Set and Delete
CfgKeys == {"logLevel", "loglevel", "pluginDir", "sendUsageData", "verbosity"}

\* values handed to Set
CfgValues == {"debug", "ALLOW", "verbose"}

\* the config files LoadConfig can find: none, one that is not JSON, or one
\* that sets some keys
ConfigFiles ==
    {[exists |-> FALSE, parses |-> TRUE, values |-> NoValues],
     [exists |-> TRUE, parses |-> FALSE, values |-> NoValues]} \cup
    { [exists |-> TRUE, parses |-> TRUE,
       values |-> [k \in ViperKeys |->
                     CASE k = "loglevel" -> l [] k = "sendusagedata" -> u
                       [] OTHER -> Absent]] :
        l \in {Absent, "debug", "verbose"}, u \in {Absent, "ALLOW"} }

\* readConfig: a viper handle on the file of the config directory; a file
\* that is not found is only logged, a file that does not parse is an error
readConfig(file) ==
    IF file.exists /\ ~file.parses
    THEN [res |-> "error parsing config file",
          viper |-> [config |-> NoValues, override |-> NoValues]]
    ELSE [res |-> "nil",
          viper |-> [config |-> IF file.exists THEN file.values ELSE NoValues,
                     override |-> NoValues]]

\* LoadConfig: the global scope of the file (the zero Config when there is
\* none), completed with the defaults; the file is left as it was found
LoadConfig(file) ==
    LET r == readConfig(file)
        g == unmarshalGlobal(r.viper)
    IN  IF r.res # "nil"
        THEN [res |-> r.res, config |-> ZeroConfig, viper |-> r.viper, file |-> file]
        ELSE [res |-> "nil",
              config |-> setDefaults(IF g.ok THEN g.config ELSE ZeroConfig),
              viper |-> r.viper, file |-> file]

\* LoadConfig has returned a Config and no call on it has panicked
ConfigLoaded ==
    /\ cfgOp.op # "none"
    /\ cfgRes # "panic"
    /\ cfgOp.op = "LoadConfig" => cfgRes = "nil"

\* LoadConfig(configDir) at start-up
CfgLoad ==
    /\ cfgOp.op = "none"
    /\ LET r == LoadConfig(cfgFile)
       IN  /\ cfg' = r.config
           /\ cfgViper' = r.viper
           /\ cfgFile' = r.file
           /\ cfgRes' = r.res
    /\ cfgOp' = [op |-> "LoadConfig", key |-> "", value |-> ""]
    /\ UNCHANGED <<notConfig, cfgRejected>>

\* c.Set(key, value) by the user
CfgSet ==
    /\ ConfigLoaded
    /\ \E key \in CfgKeys, value \in CfgValues :
         LET r == Set(cfg, cfgViper, cfgFile, key, value)
         IN  /\ cfgViper' = r.viper
             /\ cfgFile' = r.file
             /\ cfgRes' = r.res
             /\ cfgOp' = [op |-> "Set", key |-> key, value |-> value]
             /\ cfgRejected' = (cfgRejected \/ r.res \notin {"nil", "panic"})
    /\ UNCHANGED <<notConfig, cfg>>

\* c.Delete(key) by the user
CfgDelete ==
    /\ ConfigLoaded
    /\ \E key \in CfgKeys :
         LET r == Delete(cfg, cfgViper, cfgFile, key)
         IN  /\ cfgViper' = r.viper
             /\ cfgFile' = r.file
             /\ cfgRes' = r.res
             /\ cfgOp' = [op |-> "Delete", key |-> key, value |-> ""]
    /\ UNCHANGED <<notConfig, cfg, cfgRejected>>

\* the configuration before LoadConfig, with no file
ConfigIdle ==
    /\ cfgFile = [exists |-> FALSE, parses |-> TRUE, values |-> NoValues]
    /\ cfgViper = [config |-> NoValues, override |-> NoValues]
    /\ cfg = ZeroConfig
    /\ cfgOp = [op |-> "none", key |-> "", value |-> ""]
    /\ cfgRes = "nil"
    /\ cfgRejected = FALSE

----------------------------------------------------------------------------
(* package configuration: credentials and the default profile.  Profile
   names and file contents are sequences of characters. *)

\* what defaultProfile() returns: "default"
DefaultProfileName == <<"d", "e", "f", "a", "u", "l", "t">>

\* another profile of the user
ProdProfileName == <<"p", "r", "o", "d">>

\* the name as a JSON string, as found in a default-profile.json written
\* in JSON
QuotedProdProfileName == <<"\"">> \o ProdProfileName \o <<"\"">>

ProfileNames == {DefaultProfileName, ProdProfileName}

\* APIKey, Region, AccountID, LicenseKey
CredentialKeys == {"apiKey", "region", "accountID", "licenseKey"}

CredentialValues == {"v1", "v2"}

\* the key paths "<profile>.<key>" of viperCreds; viper folds the case of a
\* path on Set and on Get alike
CredPaths == ProfileNames \X CredentialKeys

NoCreds == [kp \in CredPaths |-> Absent]

\* strings.TrimLeft(s, "\"")
TrimLeft(s) ==
    LET RECURSIVE left(_)
        left(t) == IF t # <<>> /\ Head(t) = "\"" THEN left(Tail(t)) ELSE t
    IN  left(s)

\* strings.TrimRight(s, "\"")
TrimRight(s) ==
    LET RECURSIVE right(_)
        right(t) == IF t # <<>> /\ t[Len(t)] = "\""
                    THEN right(SubSeq(t, 1, Len(t) - 1)) ELSE t
    IN  right(s)

\* strings.Trim(s, "\"")
Trim(s) == TrimRight(TrimLeft(s))

\* os.O_WRONLY, os.O_CREATE, os.O_TRUNC on linux
O_WRONLY == 1
O_CREATE == 64
O_TRUNC == 512

\* the permission viper's WriteConfigAs gives a file, and the one a
\* default-profile.json of another origin has: 0644
PermRW == 420

\* FileMode.Perm(): the nine permission bits
Perm(mode) == mode % 512

\* the owner's read and write bits
OwnerRead(perm) == (perm \div 256) % 2 = 1
OwnerWrite(perm) == (perm \div 128) % 2 = 1

\* ioutil.ReadFile: the content, or an error when the file is missing or
\* the process may not read it
ioutilReadFile(file, e) ==
    IF file.exists /\ (e.root \/ OwnerRead(file.perm))
    THEN [res |-> "nil", content |-> file.content]
    ELSE [res |-> "error", content |-> <<>>]

\* ioutil.WriteFile(name, data, perm): truncates a file the process may
\* write, creates a missing one with perm, else an error
ioutilWriteFile(file, e, data, perm) ==
    IF file.exists
    THEN IF e.root \/ OwnerWrite(file.perm)
         THEN [res |-> "nil", file |-> [file EXCEPT !.content = data]]
         ELSE [res |-> "error", file |-> file]
    ELSE IF e.root \/ e.dirWritable
         THEN [res |-> "nil",
               file |-> [exists |-> TRUE, content |-> data, perm |-> Perm(perm)]]
         ELSE [res |-> "error", file |-> file]

\* defaultProfile(): the constant name, whatever the default profile is
defaultProfile == DefaultProfileName

\* keyDefaultProfile(key)
keyDefaultProfile(key) == <<defaultProfile, key>>

\* viperCreds.Get(path): nil for a path that holds nothing
CredsGet(v, kp) == IF kp \in DOMAIN v THEN v[kp] ELSE Absent

\* GetCredentialValue(key)
GetCredentialValue(key) == CredsGet(viperCreds, keyDefaultProfile(key))

\* GetDefaultProfileName()
GetDefaultProfileName == defaultProfileValue

\* viperCreds.WriteConfigAs(credentials.json): all settings, to a file of
\* permission 0644
WriteConfigAs(v, file, e) ==
    IF file.exists \/ e.root \/ e.dirWritable
    THEN [res |-> "nil", file |-> [exists |-> TRUE, values |-> v]]
    ELSE [res |-> "error", file |-> file]

\* setCredentialValue(profileName, key, value): Set, then write the file
setCredentialValue(v, file, e, profileName, key, value) ==
    LET v1 == [v EXCEPT ![<<profileName, key>>] = value]
        w == WriteConfigAs(v1, file, e)
    IN  [res |-> w.res, viper |-> v1, file |-> w.file]

\* loadCredsFile(): a new viper on credentials.json; a missing file is only
\* logged
loadCredsFile(file) == IF file.exists THEN file.values ELSE NoCreds

\* loadDefaultProfileFile(): the trimmed content of the file, or the value
\* as it was when the file cannot be read; no error either way
loadDefaultProfileFile(value, file, e) ==
    LET r == ioutilReadFile(file, e)
    IN  IF r.res # "nil" THEN value ELSE Trim(r.content)

\* saveDefaultProfileName(profileName): writes the name with the open flags
\* as the file's mode; a failed write is dropped, and returns nil as well
saveDefaultProfileName(value, file, e, profileName) ==
    LET flags == O_CREATE + O_TRUNC + O_WRONLY
        w == ioutilWriteFile(file, e, profileName, flags)
    IN  IF w.res # "nil"
        THEN [res |-> "nil", value |-> value, file |-> w.file]
        ELSE [res |-> "nil", value |-> profileName, file |-> w.file]

\* the credentials.json files load() can find
CredsFiles ==
    {[exists |-> FALSE, values |-> NoCreds],
     [exists |-> TRUE,
      values |-> [NoCreds EXCEPT ![<<DefaultProfileName, "apiKey">>] = "v1"]]}

\* the default-profile.json files load() can find
DefaultProfileFiles ==
    {[exists |-> FALSE, content |-> <<>>, perm |-> 0]} \cup
    { [exists |-> TRUE, content |-> c, perm |-> PermRW] :
        c \in {DefaultProfileName, QuotedProdProfileName} }

\* the processes: root or not, config directory writable or not
CredsEnvs == [root : BOOLEAN, dirWritable : BOOLEAN]

NoProfile == <<>>

\* load(): the credentials file and the default-profile file
CredLoad ==
    /\ viperCreds' = loadCredsFile(credsFile)
    /\ defaultProfileValue' =
           loadDefaultProfileFile(defaultProfileValue, defaultProfileFile, credsEnv)
    /\ credOp' = [op |-> "load", profile |-> NoProfile]
    /\ credRes' = "nil"
    /\ UNCHANGED <<notCreds, credsFile, defaultProfileFile, credsEnv, credSets>>

\* SetDefaultProfileName(profileName) by the user
CredSetDefaultProfileName ==
    /\ credOp.op # "none"
    /\ \E profileName \in ProfileNames :
         LET r == saveDefaultProfileName(defaultProfileValue, defaultProfileFile,
                                         credsEnv, profileName)
         IN  /\ defaultProfileValue' = r.value
             /\ defaultProfileFile' = r.file
             /\ credRes' = r.res
             /\ credOp' = [op |-> "SetDefaultProfileName", profile |-> profileName]
    /\ UNCHANGED <<notCreds, viperCreds, credsFile, credsEnv, credSets>>

\* SetAPIKey, SetRegion, SetAccountID or SetLicenseKey by the user
CredSetValue ==
    /\ credOp.op # "none"
    /\ credSets < MaxCredSets
    /\ \E profileName \in ProfileNames, key \in CredentialKeys,
          value \in CredentialValues :
         LET r == setCredentialValue(viperCreds, credsFile, credsEnv,
                                     profileName, key, value)
         IN  /\ viperCreds' = r.viper
             /\ credsFile' = r.file
             /\ credRes' = r.res
             /\ credOp' = [op |-> "setCredentialValue", profile |-> profileName]
    /\ credSets' = credSets + 1
    /\ UNCHANGED <<notCreds, defaultProfileValue, defaultProfileFile, credsEnv>>

\* the package before load(), with no files
CredsIdle ==
    /\ defaultProfileValue = NoProfile
    /\ viperCreds = NoCreds
    /\ credsFile = [exists |-> FALSE, values |-> NoCreds]
    /\ defaultProfileFile = [exists |-> FALSE, content |-> <<>>, perm |-> 0]
    /\ credsEnv = [root |-> FALSE, dirWritable |-> TRUE]
    /\ credOp = [op |-> "none", profile |-> NoProfile]
    /\ credRes = "nil"
    /\ credSets = 0

----------------------------------------------------------------------------
(* goTaskRecipeExecutor.execute, statement group by statement group *)

\* return e, after the defer of os.Remove(file.Name()) has been registered
ReturnAfterDefer(e) ==
    /\ pc' = "ret"
    /\ err' = e
    /\ tmpFiles' = tmpFiles \ {Cur.Name}

\* r.ToRecipeFile() and yaml.Marshal(f.Install); either may fail
Render ==
    /\ pc = "start"
    /\ \E ok \in BOOLEAN :
         IF ok THEN pc' = "tempfile" /\ err' = "nil"
         ELSE pc' = "ret" /\ err' = "render failed"
    /\ UNCHANGED <<notExec, batch, creds, env, interactive, idx, results, tmpFiles,
                   vars, varIdx, prompted, bound, stepIdx, invoked, failedStep>>

\* ioutil.TempFile, then defer os.Remove(file.Name()), then the error check:
\* when TempFile fails, file is nil and file.Name() dereferences it (a panic)
CreateTemp ==
    /\ pc = "tempfile"
    /\ \E ok \in BOOLEAN :
         IF ok THEN /\ tmpFiles' = tmpFiles \cup {Cur.Name}
                    /\ pc' = "write"
                    /\ err' = err
         ELSE /\ pc' = "crashed"
              /\ err' = "panic: nil pointer dereference"
              /\ tmpFiles' = tmpFiles
    /\ UNCHANGED <<notExec, batch, creds, env, interactive, idx, results,
                   vars, varIdx, prompted, bound, stepIdx, invoked, failedStep>>

\* file.Write(out)
WriteFile ==
    /\ pc = "write"
    /\ \E ok \in BOOLEAN :
         IF ok THEN pc' = "setup" /\ UNCHANGED <<err, tmpFiles>>
         ELSE ReturnAfterDefer("write failed")
    /\ UNCHANGED <<notExec, batch, creds, env, interactive, idx, results,
                   vars, varIdx, prompted, bound, stepIdx, invoked, failedStep>>

\* a fresh task.Executor on the file, e.Setup(), yaml.Unmarshal(out, &tf)
Setup ==
    /\ pc = "setup"
    /\ \E ok \in BOOLEAN :
         IF ok THEN pc' = "creds" /\ vars' = EmptyVars /\ UNCHANGED <<err, tmpFiles>>
         ELSE ReturnAfterDefer("setup failed") /\ vars' = vars
    /\ UNCHANGED <<notExec, batch, creds, env, interactive, idx, results,
                   varIdx, prompted, bound, stepIdx, invoked, failedStep>>

\* taskargs.ParseV3() with no arguments (no globals), then the credentials
\* callback: NR_LICENSE_KEY is merged whatever the key is, and an empty key
\* sets err, which execute returns
WithLicenseKey ==
    /\ pc = "creds"
    /\ LET licenseKey == DefaultLicenseKey(creds)
       IN  /\ vars' = Merge(Merge(vars, EmptyVars), Single("NR_LICENSE_KEY", licenseKey))
           /\ IF LicenseKeyMissing(licenseKey)
              THEN ReturnAfterDefer("license key not found in default profile")
              ELSE pc' = "sysvars" /\ UNCHANGED <<err, tmpFiles>>
    /\ UNCHANGED <<notExec, batch, creds, env, interactive, idx, results,
                   varIdx, prompted, bound, stepIdx, invoked, failedStep>>

\* setSystemVars(e.Taskfile, m)
SetSystemVars ==
    /\ pc = "sysvars"
    /\ vars' = Merge(vars, SystemVars(Manifest))
    /\ pc' = "inputvars"
    /\ varIdx' = 1
    /\ UNCHANGED <<notExec, batch, creds, env, interactive, idx, results, err, tmpFiles,
                   prompted, bound, stepIdx, invoked, failedStep>>

\* one iteration of the range loop of setInputVars
SetInputVar ==
    /\ pc = "inputvars"
    /\ varIdx <= Len(Cur.InputVars)
    /\ LET envConfig == Cur.InputVars[varIdx]
       IN  IF UseEnv(envConfig)
           THEN /\ vars' = Merge(vars, Single(envConfig.Name, Getenv(envConfig.Name)))
                /\ bound' = Append(bound, [name |-> envConfig.Name,
                                           value |-> Getenv(envConfig.Name),
                                           src |-> "env"])
                /\ varIdx' = varIdx + 1
                /\ UNCHANGED <<pc, err, tmpFiles, prompted>>
           ELSE \E r \in PromptOutcomes(envConfig) :
                /\ prompted' = Append(prompted, [name |-> envConfig.Name,
                                                 label |-> PromptLabel(envConfig),
                                                 default |-> envConfig.Default,
                                                 ok |-> r.ok])
                /\ IF PromptFailed(r)
                   THEN /\ ReturnAfterDefer("prompt failed")
                        /\ UNCHANGED <<vars, bound, varIdx>>
                   ELSE /\ vars' = Merge(vars, Single(envConfig.Name, r.value))
                        /\ bound' = Append(bound, [name |-> envConfig.Name,
                                                   value |-> r.value,
                                                   src |-> "prompt"])
                        /\ varIdx' = varIdx + 1
                        /\ UNCHANGED <<pc, err, tmpFiles>>
    /\ UNCHANGED <<notExec, batch, creds, env, interactive, idx, results,
                   stepIdx, invoked, failedStep>>

\* setInputVars returns nil; execute goes on to e.Run(ctx, calls...)
InputVarsDone ==
    /\ pc = "inputvars"
    /\ varIdx > Len(Cur.InputVars)
    /\ pc' = "run"
    /\ stepIdx' = 1
    /\ UNCHANGED <<notExec, batch, creds, env, interactive, idx, results, err, tmpFiles,
                   vars, varIdx, prompted, bound, invoked, failedStep>>

\* the task engine inside e.Run: the next step of the list is invoked and
\* succeeds or fails; a failure ends the run
RunStep ==
    /\ pc = "run"
    /\ stepIdx <= Len(Cur.Steps)
    /\ invoked' = Append(invoked, Cur.Steps[stepIdx])
    /\ \E ok \in BOOLEAN :
         IF ok THEN stepIdx' = stepIdx + 1 /\ UNCHANGED <<pc, failedStep>>
         ELSE failedStep' = stepIdx /\ pc' = "runfailed" /\ stepIdx' = stepIdx
    /\ UNCHANGED <<notExec, batch, creds, env, interactive, idx, results, err, tmpFiles,
                   vars, varIdx, prompted, bound>>

\* the mutant of RunFailed: the run is started again after a failure
RunFailedRetry ==
    /\ pc = "runfailed"
    /\ pc' = "run"
    /\ stepIdx' = 1
    /\ failedStep' = 0
    /\ UNCHANGED <<notExec, batch, creds, env, interactive, idx, results, err, tmpFiles,
                   vars, varIdx, prompted, bound, invoked>>

\* e.Run returned an error: execute returns it
RunFailed ==
    /\ pc = "runfailed"
    /\ ReturnAfterDefer("step failed")
    /\ UNCHANGED <<notExec, batch, creds, env, interactive, idx, results,
                   vars, varIdx, prompted, bound, stepIdx, invoked, failedStep>>

\* e.Run returned nil: execute returns nil
RunDone ==
    /\ pc = "run"
    /\ stepIdx > Len(Cur.Steps)
    /\ ReturnAfterDefer("nil")
    /\ UNCHANGED <<notExec, batch, creds, env, interactive, idx, results,
                   vars, varIdx, prompted, bound, stepIdx, invoked, failedStep>>

----------------------------------------------------------------------------
(* The batch of candidate recipes *)

\* the pipeline records the result of the recipe and goes on to the next
\* candidate, whatever the result
Collect ==
    /\ pc = "ret"
    /\ results' = Append(results, [name |-> Cur.Name, err |-> err,
                                   ran |-> Len(invoked)])
    /\ idx' = idx + 1
    /\ pc' = IF idx < Len(batch) THEN "start" ELSE "finished"
    /\ err' = "nil"
    /\ varIdx' = 1
    /\ stepIdx' = 1
    /\ prompted' = <<>>
    /\ bound' = <<>>
    /\ invoked' = <<>>
    /\ failedStep' = 0
    /\ UNCHANGED <<notExec, batch, creds, env, interactive, tmpFiles, vars>>

\* the executor before the first recipe, with fixed inputs
ExecIdle ==
    /\ batch = <<RecipeCatalogue[3]>>
    /\ creds \in {c \in CredentialSets : DefaultLicenseKey(c) # ""}
    /\ env = [n \in EnvNames |-> ""]
    /\ interactive = TRUE
    /\ idx = 1
    /\ results = <<>>
    /\ pc = "start"
    /\ err = "nil"
    /\ tmpFiles = {}
    /\ vars = EmptyVars
    /\ varIdx = 1
    /\ prompted = <<>>
    /\ bound = <<>>
    /\ stepIdx = 1
    /\ invoked = <<>>
    /\ failedStep = 0

Init ==
    /\ MatchIdle
    /\ ConfigIdle
    /\ CredsIdle
    /\ batch \in Batches
    /\ creds \in CredentialSets
    /\ env \in Envs
    /\ interactive \in BOOLEAN
    /\ idx = 1
    /\ results = <<>>
    /\ pc = "start"
    /\ err = "nil"
    /\ tmpFiles = {}
    /\ vars = EmptyVars
    /\ varIdx = 1
    /\ prompted = <<>>
    /\ bound = <<>>
    /\ stepIdx = 1
    /\ invoked = <<>>
    /\ failedStep = 0

Next ==
    \/ Render
    \/ CreateTemp
    \/ WriteFile
    \/ Setup
    \/ WithLicenseKey
    \/ SetSystemVars
    \/ SetInputVar
    \/ InputVarsDone
    \/ RunStep
    \/ RunFailed
    \/ RunDone
    \/ Collect

Spec == Init /\ [][Next]_vars_all

InitMatch ==
    /\ ExecIdle
    /\ ConfigIdle
    /\ CredsIdle
    /\ manifest \in Manifests
    /\ repository \in Repositories
    /\ candidates = <<>>
    /\ firstCandidates = <<>>
    /\ matchCalls = 0

NextMatch == Match

SpecMatch == InitMatch /\ [][NextMatch]_vars_all

InitConfig ==
    /\ ExecIdle
    /\ MatchIdle
    /\ CredsIdle
    /\ cfgFile \in ConfigFiles
    /\ cfgViper = [config |-> NoValues, override |-> NoValues]
    /\ cfg = ZeroConfig
    /\ cfgOp = [op |-> "none", key |-> "", value |-> ""]
    /\ cfgRes = "nil"
    /\ cfgRejected = FALSE

NextConfig ==
    \/ CfgLoad
    \/ CfgSet
    \/ CfgDelete

SpecConfig == InitConfig /\ [][NextConfig]_vars_all

InitCreds ==
    /\ ExecIdle
    /\ MatchIdle
    /\ ConfigIdle
    /\ defaultProfileValue = NoProfile
    /\ viperCreds = NoCreds
    /\ credsFile \in CredsFiles
    /\ defaultProfileFile \in DefaultProfileFiles
    /\ credsEnv \in CredsEnvs
    /\ credOp = [op |-> "none", profile |-> NoProfile]
    /\ credRes = "nil"
    /\ credSets = 0

NextCreds ==
    \/ CredLoad
    \/ CredSetDefaultProfileName
    \/ CredSetValue

SpecCreds == InitCreds /\ [][NextCreds]_vars_all

----------------------------------------------------------------------------
(* Properties of the executor, checked under Spec *)

\* names of the input variables a recipe declares
DeclaredNames(r) == {r.InputVars[i].Name : i \in 1..Len(r.InputVars)}

\* the variableConfig a recipe declares first under a name
Declared(r, n) ==
    r.InputVars[CHOOSE i \in 1..Len(r.InputVars) : r.InputVars[i].Name = n]

\* the value the manifest or the default profile gives a system binding
SystemValue(n) ==
    IF n = "NR_LICENSE_KEY" THEN DefaultLicenseKey(creds)
    ELSE SystemVars(Manifest)[n]

\* the value setInputVars bound last to n
LastBound(n) ==
    LET is == {i \in 1..Len(bound) : bound[i].name = n}
    IN  bound[CHOOSE i \in is : \A j \in is : j <= i].value

\* execute is inside the call for batch[idx]
InCall == pc \notin {"finished"}

\* C1, as stated: when the bindings are handed to the task engine, every
\* declared input variable that has the name of a system binding holds the
\* manifest or credential value
C1_SystemBindingsWin ==
    pc = "run" =>
        \A n \in SystemNames \cap DeclaredNames(Cur) : vars[n] = SystemValue(n)

\* C1, amended: when the bindings are handed to the task engine, a declared
\* input variable holds the value setInputVars resolved for it (environment
\* or prompt), also under the name of a system binding; the system bindings
\* the recipe does not declare hold the manifest or credential value
C1_DeclaredBindingsWin ==
    pc = "run" =>
        /\ \A n \in DeclaredNames(Cur) : n \in DOMAIN vars /\ vars[n] = LastBound(n)
        /\ \A n \in SystemNames \ DeclaredNames(Cur) :
              n \in DOMAIN vars /\ vars[n] = SystemValue(n)

\* a recipe declaring OS reaches the engine with OS bound to another value
\* than the manifest's
C1_Witness ==
    /\ pc = "run"
    /\ "OS" \in DeclaredNames(Cur)
    /\ vars["OS"] # SystemValue("OS")
    /\ vars["Platform"] = Manifest.platform

\* C2: a declared input variable whose environment variable is set and not
\* empty is bound to the environment value and is never prompted for,
\* whatever its default and prompt text
C2_EnvValueUsed ==
    /\ \A i \in 1..Len(bound) :
          Getenv(bound[i].name) # "" =>
              /\ bound[i].src = "env"
              /\ bound[i].value = Getenv(bound[i].name)
              /\ vars[bound[i].name] = Getenv(bound[i].name)
    /\ \A i \in 1..Len(prompted) : Getenv(prompted[i].name) = ""
    /\ pc = "run" =>
          \A n \in DeclaredNames(Cur) :
              Getenv(n) # "" => \E i \in 1..Len(bound) : bound[i].name = n

\* PORT, which declares a default, is bound from the environment
C2_Witness ==
    /\ pc = "run"
    /\ Len(bound) >= 1
    /\ bound[1] = [name |-> "PORT", value |-> "env-PORT", src |-> "env"]
    /\ Declared(Cur, "PORT").Default # ""
    /\ prompted # <<>>

\* C3: the steps invoked are a prefix of the declared steps, in order and
\* each once; after a step failed nothing more is invoked and execute
\* returns the error
C3_StepsInOrder ==
    /\ InCall => /\ Len(invoked) <= Len(Cur.Steps)
                 /\ invoked = SubSeq(Cur.Steps, 1, Len(invoked))
    /\ failedStep # 0 =>
          /\ Len(invoked) = failedStep
          /\ pc \in {"runfailed", "ret"}
          /\ pc = "ret" => err = "step failed"
    /\ (pc = "ret" /\ err = "nil") => invoked = Cur.Steps
    /\ \A i \in 1..Len(results) :
          /\ results[i].ran <= Len(batch[i].Steps)
          /\ results[i].err = "nil" => results[i].ran = Len(batch[i].Steps)

\* steps [A, B, C] with B failing: execute has returned, C was not invoked
C3_Witness ==
    /\ pc = "ret"
    /\ err = "step failed"
    /\ Cur.Steps = <<"A", "B", "C">>
    /\ failedStep = 2
    /\ invoked = <<"A", "B">>

\* C4: execute never crashes, and once it has returned the task file of
\* the recipe does not exist
C4_FileRemovedOnEveryExit ==
    /\ pc # "crashed"
    /\ pc \in {"ret", "start", "finished"} => tmpFiles = {}

\* C5: with no default profile or no license key in it, execute returns the
\* credential error as soon as it reaches the lookup, and no step is run
C5_NoLicenseKeyNoRun ==
    /\ [][(pc = "creds" /\ DefaultLicenseKey(creds) = "") =>
            (pc' = "ret" /\ err' = "license key not found in default profile")]_vars_all
    /\ [](DefaultLicenseKey(creds) = "" =>
            /\ invoked = <<>>
            /\ pc \notin {"sysvars", "inputvars", "run", "runfailed"}
            /\ pc = "ret" => err # "nil"
            /\ \A i \in 1..Len(results) :
                  results[i].ran = 0 /\ results[i].err # "nil")

\* the default profile does not exist and execute returned the credential error
C5_Witness ==
    /\ creds.DefaultProfile \notin DOMAIN creds.Profiles
    /\ pc = "ret"
    /\ err = "license key not found in default profile"
    /\ tmpFiles = {}

\* C6: a failed prompt is the last thing setInputVars does: execute returns
\* the prompt error at that variable, no later variable is bound or
\* prompted for, and no step is run
C6_PromptFailureFailsRecipe ==
    /\ \A i \in 1..Len(prompted) :
          ~prompted[i].ok =>
              /\ i = Len(prompted)
              /\ pc = "ret"
              /\ err = "prompt failed"
              /\ invoked = <<>>
              /\ varIdx <= Len(Cur.InputVars)
              /\ prompted[i].name = Cur.InputVars[varIdx].Name
              /\ Len(bound) = varIdx - 1
    /\ (pc = "ret" /\ err = "prompt failed") =>
          (prompted # <<>> /\ ~prompted[Len(prompted)].ok)
    /\ \A i \in 1..Len(results) :
          results[i].err = "prompt failed" => results[i].ran = 0

\* the prompt of the first of two declared variables failed
C6_Witness ==
    /\ pc = "ret"
    /\ err = "prompt failed"
    /\ Len(Cur.InputVars) = 2
    /\ varIdx = 1
    /\ bound = <<>>
    /\ Len(prompted) = 1

\* errors execute can return before it reaches setInputVars or after it
OtherErrors ==
    {"nil", "render failed", "write failed", "setup failed",
     "license key not found in default profile", "step failed"}

\* C7, as stated: in non-interactive mode no prompt is run, only variables
\* with an environment value are bound, and the resolution error names the
\* variable
C7_NonInteractiveFailsWithoutPrompt ==
    ~interactive =>
        /\ prompted = <<>>
        /\ \A i \in 1..Len(bound) : bound[i].src = "env"
        /\ (pc = "ret" /\ err \notin OtherErrors) =>
              err = "VariableResolutionError(" \o Cur.InputVars[varIdx].Name \o ")"

\* C7, amended: in every mode a declared input variable with no (or an
\* empty) environment variable is prompted for, under its prompt text or the
\* generated message and with its default pre-filled; it is bound to what
\* the prompt returns, and resolution fails only when the prompt fails, with
\* a prompt error that does not name the variable
C7_MissingEnvIsPrompted ==
    /\ \A i \in 1..Len(bound) :
          Getenv(bound[i].name) = "" => bound[i].src = "prompt"
    /\ \A i \in 1..Len(prompted) :
          LET p == prompted[i]
              c == Declared(Cur, p.name)
          IN  /\ Getenv(p.name) = ""
              /\ p.default = c.Default
              /\ p.label = IF c.Prompt # "" THEN c.Prompt
                           ELSE "value for " \o p.name \o " required"
    /\ Len(prompted) =
          Cardinality({i \in 1..Len(bound) : bound[i].src = "prompt"})
          + (IF pc = "ret" /\ err = "prompt failed" THEN 1 ELSE 0)
    /\ (pc = "ret" /\ err \notin OtherErrors) => err = "prompt failed"

\* non-interactive mode, PORT with default "8080" and no PORT in the
\* environment: PORT was prompted for and is bound to the default
C7_Witness ==
    /\ ~interactive
    /\ pc = "run"
    /\ Getenv("PORT") = ""
    /\ Len(bound) >= 1
    /\ bound[1] = [name |-> "PORT", value |-> "8080", src |-> "prompt"]
    /\ prompted[1].default = "8080"

\* C8: when the run is over every candidate has its own result, in order;
\* the bindings of a recipe hold only its own variables and the system ones
C8_EveryCandidateAttempted ==
    /\ pc \in {"finished", "crashed"} =>
          /\ Len(results) = Len(batch)
          /\ \A i \in 1..Len(batch) : results[i].name = batch[i].Name
    /\ pc = "run" => DOMAIN vars \subseteq SystemNames \cup DeclaredNames(Cur)

----------------------------------------------------------------------------
(* Properties of the matcher, checked under SpecMatch *)

\* recipe r has a pattern that is a substring of some command line of m
HasMatch(m, r) ==
    \E k \in 1..Len(r.processMatch) : \E i \in 1..Len(m.processes) :
        Contains(m.processes[i].commandLine, r.processMatch[k])

\* C9: match returns exactly the recipes with a pattern that is a substring
\* of some command line, in load order, each name once; a recipe with no
\* pattern is never returned; a second call returns the same sequence
C9_MatchExactOrderedUnique ==
    matchCalls >= 1 =>
        /\ candidates = SelectSeq(repository, LAMBDA r : HasMatch(manifest, r))
        /\ \A i, j \in 1..Len(candidates) :
              candidates[i].name = candidates[j].name => i = j
        /\ \A i \in 1..Len(candidates) : candidates[i].processMatch # <<>>
        /\ candidates = firstCandidates

\* two recipes matching the same process through several patterns, both
\* returned once and in load order, by both calls
C9_Witness ==
    /\ matchCalls = 2
    /\ Len(candidates) = 2
    /\ candidates[1].name = "R1"
    /\ candidates[2].name = "R2"
    /\ candidates[2].processMatch = << <<"n">>, <<"a">> >>
    /\ candidates[1].processMatch = << <<"n">>, <<"n">> >>
    /\ Len(manifest.processes) = 2

----------------------------------------------------------------------------
(* Properties of the configuration, checked under SpecConfig *)

\* the default of the field a key names, whatever the case of the key
DefaultOf(key) ==
    defaultConfig[CHOOSE f \in DOMAIN defaultConfig : EqualFold(f, key)]

\* C10: Delete(key), for a key Set accepts, returns no error, leaves the
\* default as the stored value of key and the other stored values as they
\* were
C10_DeleteRevertsToDefault ==
    [][\A key \in CfgKeys :
          (cfgOp'.op = "Delete" /\ cfgOp'.key = key
              /\ stringInStrings(key, validConfigKeys)) =>
             /\ cfgRes' = "nil"
             /\ ViperGet(cfgViper', key) = DefaultOf(key)
             /\ \A k \in ViperKeys \ {ToLower(key)} :
                   ViperGet(cfgViper', k) = ViperGet(cfgViper, k)]_vars_all

\* C11: after LoadConfig has returned without error a config file exists,
\* and every field the file does not set holds its default
C11_LoadConfigInitializesFile ==
    (cfgOp.op = "LoadConfig" /\ cfgRes = "nil") =>
        /\ cfgFile.exists
        /\ \A f \in DOMAIN cfg :
              cfgFile.values[ToLower(f)] = Absent => cfg[f] = defaultConfig[f]

\* Set accepts the key and validate accepts the value for it
ValidSet(key, value) ==
    /\ stringInStrings(key, validConfigKeys)
    /\ validateField([Name |-> key, Value |-> value, Default |-> ""]) = "nil"

\* C12: a Set that returns an error does not write the config file; once a
\* Set has been rejected, a Set of a valid value for a valid key still
\* returns no error, and the file then holds only values that pass
\* validation
C12_RejectedSetHasNoLastingEffect ==
    [][cfgOp'.op = "Set" =>
          /\ cfgRes' \notin {"nil", "panic"} => cfgFile' = cfgFile
          /\ (cfgRejected /\ ValidSet(cfgOp'.key, cfgOp'.value)) =>
                /\ cfgRes' = "nil"
                /\ cfgFile'.exists
                /\ \A k \in ViperKeys \ {""} :
                      cfgFile'.values[k] # Absent =>
                          validateField([Name |-> k, Value |-> cfgFile'.values[k],
                                         Default |-> ""]) = "nil"]_vars_all

\* C13: once a default profile is named and holds a value for a credential
\* key (Set overwrites, so the value held is the one last set),
\* GetCredentialValue of that key returns that value
C13_ReadsFollowDefaultProfile ==
    credOp.op # "none" =>
        \A key \in CredentialKeys :
            LET kp == <<GetDefaultProfileName, key>>
            IN  CredsGet(viperCreds, kp) # Absent =>
                    GetCredentialValue(key) = CredsGet(viperCreds, kp)

\* C14: after SetDefaultProfileName(p) has returned nil,
\* GetDefaultProfileName() is p, the default-profile file holds p, and
\* loading the file again leaves p as the default profile
C14_DefaultProfileSavedInMemoryAndOnDisk ==
    (credOp.op = "SetDefaultProfileName" /\ credRes = "nil") =>
        /\ GetDefaultProfileName = credOp.profile
        /\ defaultProfileFile.exists
        /\ Trim(defaultProfileFile.content) = credOp.profile
        /\ loadDefaultProfileFile(defaultProfileValue, defaultProfileFile,
                                  credsEnv) = credOp.profile

====
